---- MODULE Spec2Model ----
(***************************************************************************)
(* Model of absfs/basefs: a filesystem facade that re-roots a wrapped      *)
(* filesystem onto a base directory (prefix).  Strings are sequences of    *)
(* one-character strings, so that prefix tests, joins and cleaning are     *)
(* computed character by character as the Go code computes them.           *)
(* The wrapped filesystem is an external collaborator: every call to it    *)
(* is logged in wcalls and its answer is drawn from a small set.           *)
(***************************************************************************)
EXTENDS Integers, Sequences, FiniteSets, TLC

VARIABLES
    variant,  \* "none" | "SymlinkFileSystem" | "FileSystem": which facade exists
    prefix,   \* baseFS.prefix: the base directory
    cwd,      \* baseFS.cwd: the virtual working directory
    file,     \* the File (confined handle) the caller holds, or None
    pc,       \* "idle": the caller may call; "returned": a call has returned
    call,     \* the operation the caller made and its arguments
    wcalls,   \* the calls that operation made on the wrapped filesystem
    ret,      \* what the operation returned to the caller
    wfs,      \* the contents of the wrapped filesystem, in the specifications
              \* that fix them (Abstract where its answers are drawn from sets)
    threads   \* the goroutines sharing one baseFS, each with its position in
              \* Chdir or path (NoThreads where there is a single caller)

vars == <<variant, prefix, cwd, file, pc, call, wcalls, ret, wfs, threads>>

----------------------------------------------------------------------------
(* Bounds of the model *)

\* longest virtual path, in segments, handed to a one-path operation
MaxSegs == 2
\* deepest working directory, in segments, the model lets Chdir reach
MaxCwdSegs == 2
\* longest content, in bytes, of a file of the storing wrapped filesystem
MaxData == 2

----------------------------------------------------------------------------
(* Strings *)

\* strings.HasPrefix
HasPrefix(s, p) == Len(s) >= Len(p) /\ SubSeq(s, 1, Len(p)) = p

\* strings.TrimPrefix
TrimPrefix(s, p) == IF HasPrefix(s, p) THEN SubSeq(s, Len(p) + 1, Len(s)) ELSE s

\* strings.Contains
Contains(s, sub) == \E i \in 0..(Len(s) - Len(sub)) : SubSeq(s, i + 1, i + Len(sub)) = sub

\* strings.Replace(s, old, new, n) for a non-empty old: the first n
\* non-overlapping occurrences are replaced, all of them when n < 0,
\* none when n = 0.
RECURSIVE Replace(_, _, _, _)
Replace(s, old, new, n) ==
    IF n = 0 \/ old = new \/ Len(s) < Len(old) THEN s
    ELSE IF HasPrefix(s, old)
         THEN new \o Replace(SubSeq(s, Len(old) + 1, Len(s)), old, new, n - 1)
         ELSE <<s[1]>> \o Replace(Tail(s), old, new, n)

\* path.IsAbs (and filepath.IsAbs on a Unix build)
IsAbs(p) == Len(p) > 0 /\ p[1] = "/"

\* the elements of p between slashes
RECURSIVE SplitAt(_, _, _)
SplitAt(s, i, cur) ==
    IF i > Len(s) THEN <<cur>>
    ELSE IF s[i] = "/" THEN <<cur>> \o SplitAt(s, i + 1, <<>>)
         ELSE SplitAt(s, i + 1, Append(cur, s[i]))

Split(s) == SplitAt(s, 1, <<>>)

DotDot == <<".", ".">>

\* path.Clean's pass over the elements: empty and "." elements are dropped,
\* ".." removes the element before it, is dropped at the root and kept at
\* the start of a relative path.
RECURSIVE CleanElems(_, _, _, _)
CleanElems(elems, i, rooted, out) ==
    IF i > Len(elems) THEN out
    ELSE LET e == elems[i] IN
         IF e = <<>> \/ e = <<".">> THEN CleanElems(elems, i + 1, rooted, out)
         ELSE IF e = DotDot
              THEN IF out # <<>> /\ out[Len(out)] # DotDot
                   THEN CleanElems(elems, i + 1, rooted, SubSeq(out, 1, Len(out) - 1))
                   ELSE IF rooted THEN CleanElems(elems, i + 1, rooted, out)
                        ELSE CleanElems(elems, i + 1, rooted, Append(out, e))
              ELSE CleanElems(elems, i + 1, rooted, Append(out, e))

RECURSIVE JoinElems(_, _)
JoinElems(elems, i) ==
    IF i > Len(elems) THEN <<>>
    ELSE IF i = Len(elems) THEN elems[i]
         ELSE elems[i] \o <<"/">> \o JoinElems(elems, i + 1)

\* path.Clean
Clean(p) ==
    IF p = <<>> THEN <<".">>
    ELSE LET rooted == p[1] = "/"
             body == JoinElems(CleanElems(Split(p), 1, rooted, <<>>), 1)
         IN IF rooted THEN <<"/">> \o body
            ELSE IF body = <<>> THEN <<".">> ELSE body

\* path.Join of two elements: empty elements are ignored, the rest joined
\* with a slash and cleaned
Join(a, b) ==
    IF a = <<>> /\ b = <<>> THEN <<>>
    ELSE IF a = <<>> THEN Clean(b)
    ELSE IF b = <<>> THEN Clean(a)
    ELSE Clean(a \o <<"/">> \o b)

\* path.Base
Base(p) ==
    IF p = <<>> THEN <<".">>
    ELSE LET elems == SelectSeq(Split(p), LAMBDA e : e # <<>>)
         IN IF elems = <<>> THEN <<"/">> ELSE elems[Len(elems)]

----------------------------------------------------------------------------
(* Errors *)

Nil == [type |-> "nil"]

\* a package-level error value, compared by identity (os.ErrInvalid,
\* io.EOF, a syscall errno)
Sentinel(n) == [type |-> "sentinel", name |-> n]

EOF == Sentinel("EOF")
ErrInvalid == Sentinel("invalid argument")
ErrPermission == Sentinel("permission denied")
ENOENT == Sentinel("no such file or directory")

\* errors.New(msg): a fresh error that carries only its text
ErrorString(msg) == [type |-> "*errors.errorString", msg |-> msg]

PathError(op, p, cause) == [type |-> "*os.PathError", op |-> op, path |-> p, cause |-> cause]

LinkError(op, old, new, cause) ==
    [type |-> "*os.LinkError", op |-> op, old |-> old, new |-> new, cause |-> cause]

\* err.Error(): the text of an error; an operation name or a cause text is
\* one symbol of the text, a path contributes its characters
RECURSIVE ErrorText(_)
ErrorText(e) ==
    CASE e.type = "sentinel" -> <<e.name>>
      [] e.type = "*errors.errorString" -> e.msg
      [] e.type = "*os.PathError" -> <<e.op, " ">> \o e.path \o <<":", " ">> \o ErrorText(e.cause)
      [] e.type = "*os.LinkError" ->
            <<e.op, " ">> \o e.old \o <<" ">> \o e.new \o <<":", " ">> \o ErrorText(e.cause)
      [] OTHER -> <<>>

\* fixerr without the case that keeps io.EOF
fixerr_noeof(pre, err) ==
    IF err = Nil THEN Nil
    ELSE IF err.type = "*os.PathError"
         THEN PathError(err.op, Replace(err.path, pre, <<>>, 0), err.cause)
         ELSE ErrorString(Replace(ErrorText(err), pre, <<>>, 0))

\* fixerr (basefile.go): the error handed back to the caller for an error of
\* the wrapped filesystem
fixerr(pre, err) ==
    IF err = Nil THEN Nil
    ELSE IF err = EOF THEN EOF
    ELSE IF err.type = "*os.PathError"
         THEN PathError(err.op, Replace(err.path, pre, <<>>, 0), err.cause)
         ELSE ErrorString(Replace(ErrorText(err), pre, <<>>, 0))

----------------------------------------------------------------------------
(* baseFS *)

\* the error of a rejected translation
Rejection(name) == PathError("open", name, ErrorString(<<"no such file or directory">>))

\* path without the check of the joined path against the prefix
path_unchecked(name) ==
    LET n1 == IF name = <<>> THEN cwd ELSE name IN
    IF n1 = <<"/">> THEN [real |-> prefix, err |-> Nil]
    ELSE LET n2 == IF ~IsAbs(n1) THEN Clean(n1) ELSE n1
         IN [real |-> Join(prefix, n2), err |-> Nil]

\* path that takes an absolute name as the real path instead of joining it
path_absolute_unjoined(name) ==
    LET n1 == IF name = <<>> THEN cwd ELSE name IN
    IF n1 = <<"/">> THEN [real |-> prefix, err |-> Nil]
    ELSE LET n3 == IF IsAbs(n1) THEN n1 ELSE Join(prefix, Clean(n1))
         IN IF ~HasPrefix(n3, prefix)
            THEN [real |-> <<>>, err |-> Rejection(n3)]
            ELSE [real |-> n3, err |-> Nil]

\* path that does not substitute the working directory for the empty name
path_nocwd(name) ==
    IF name = <<"/">> THEN [real |-> prefix, err |-> Nil]
    ELSE LET n2 == IF ~IsAbs(name) THEN Clean(name) ELSE name
             n3 == Join(prefix, n2)
         IN IF ~HasPrefix(n3, prefix)
            THEN [real |-> <<>>, err |-> Rejection(n3)]
            ELSE [real |-> n3, err |-> Nil]

\* path that takes a relative name from the working directory
path_cwdrelative(name) ==
    LET n1 == IF name = <<>> THEN cwd ELSE name IN
    IF n1 = <<"/">> THEN [real |-> prefix, err |-> Nil]
    ELSE LET n2 == IF ~IsAbs(n1) THEN Join(cwd, n1) ELSE n1
             n3 == Join(prefix, n2)
         IN IF ~HasPrefix(n3, prefix)
            THEN [real |-> <<>>, err |-> Rejection(n3)]
            ELSE [real |-> n3, err |-> Nil]

\* the body of baseFS.path, given the value it reads from b.cwd
pathAt(bcwd, name) ==
    LET n1 == IF name = <<>> THEN bcwd ELSE name IN
    IF n1 = <<"/">> THEN [real |-> prefix, err |-> Nil]
    ELSE LET n2 == IF ~IsAbs(n1) THEN Clean(n1) ELSE n1
             n3 == Join(prefix, n2)
         IN IF ~HasPrefix(n3, prefix)
            THEN [real |-> <<>>, err |-> Rejection(n3)]
            ELSE [real |-> n3, err |-> Nil]

\* baseFS.path: virtual name -> real path, or a rejection
path(name) == pathAt(cwd, name)

----------------------------------------------------------------------------
(* Inputs *)

Segs == {<<".", ".">>, <<"b">>, <<"b", "f">>, <<"e">>}

SegSeqs(n) == UNION {[1..k -> Segs] : k \in 1..n}

MkPath(abs, elems) == (IF abs THEN <<"/">> ELSE <<>>) \o JoinElems(elems, 1)

\* paths with a "." or an empty segment
OddPaths == {<<".">>, <<"/", ".">>, <<".", "/", "e">>, <<"/", "e", "/", ".">>,
             <<"/", "/">>, <<"e", "/">>, <<"/", "b", "/", "/", "e">>, <<"/", "/", ".", ".">>}

\* the virtual paths handed to one-path operations
VPaths == {<<>>, <<"/">>} \cup OddPaths
             \cup {MkPath(a, s) : a \in BOOLEAN, s \in SegSeqs(MaxSegs)}

\* the virtual paths handed to two-path operations
PairPaths == {<<>>, <<"/">>, <<"b">>, <<"/", "b", "/", "e">>, <<".", ".">>,
              <<".", ".", "/", "b", "f">>, <<"/", ".", ".", "/", "e">>, <<"e", "/", ".", ".">>}

\* the arguments of Chdir
ChdirArgs == {<<>>, <<"/">>, <<".">>, <<".", ".">>, <<"e">>, <<"/", "e">>,
              <<"e", "/", ".", ".">>, <<"/", ".", ".", "/", "e">>,
              <<".", ".", "/", ".", ".">>, <<"e", "/", "/">>, <<"/", "e", "/", "e">>}

\* the directories handed to the constructors
Dirs == {<<>>, <<"b">>, <<"/", "b">>, <<"/">>}

----------------------------------------------------------------------------
(* The wrapped filesystem: what it can answer to a call *)

None == [kind |-> "nil"]

\* a call on the wrapped filesystem, or on a real handle, and its answer
WCall(op, a, b, err) == [op |-> op, path |-> a, path2 |-> b, err |-> err]

\* the errors of a one-path call: none, a path error naming the real path,
\* or a bare sentinel
WErrs(op, real) == {Nil, PathError(op, real, ENOENT), ErrPermission}

\* a two-path call can also fail with a link error naming both real paths
WErrs2(op, a, b) == WErrs(op, a) \cup {LinkError(op, a, b, ENOENT)}

\* os.FileInfo of the wrapped filesystem for a real path
WInfo(real, isDir) ==
    [kind |-> "info", name |-> Base(real), isDir |-> isDir,
     size |-> IF isDir THEN 0 ELSE Len(real),
     mode |-> IF isDir THEN "drwxr-xr-x" ELSE "-rw-r--r--",
     modTime |-> Len(real) + 1,
     sys |-> [stat_t |-> real]]

\* Stat and Lstat of the wrapped filesystem
WStat(op, real) ==
    {[err |-> e, info |-> None] : e \in WErrs(op, real) \ {Nil}}
        \cup {[err |-> Nil, info |-> WInfo(real, d)] : d \in BOOLEAN}

----------------------------------------------------------------------------
(* Initial state: nothing constructed yet *)

\* a single caller: no goroutines share the facade
NoThreads == <<>>

NoCall == [op |-> "none"]

\* the wrapped filesystem of which nothing is fixed
Abstract == [kind |-> "abstract"]

Init ==
    /\ wfs = Abstract
    /\ threads = NoThreads
    /\ variant = "none"
    /\ prefix = <<>>
    /\ cwd = <<>>
    /\ file = None
    /\ pc = "idle"
    /\ call = NoCall
    /\ wcalls = <<>>
    /\ ret = [err |-> Nil, val |-> None]

Call1(op, name) == [op |-> op, name |-> name, name2 |-> <<>>]
Call2(op, name, name2) == [op |-> op, name |-> name, name2 |-> name2]

\* an operation that leaves the facade as it is returns r after the wrapped calls w
Returns(c, w, r) ==
    /\ pc' = "returned"
    /\ call' = c
    /\ wcalls' = w
    /\ ret' = r
    /\ UNCHANGED <<variant, prefix, cwd, wfs, threads>>

\* Construct without the test that the base is a directory
Construct_nodircheck(op, kind, dir) ==
    /\ pc' = "returned"
    /\ call' = Call1(op, dir)
    /\ file' = file
    /\ UNCHANGED <<wfs, threads>>
    /\ IF dir = <<>> \/ ~IsAbs(dir)
       THEN /\ wcalls' = <<>>
            /\ ret' = [err |-> ErrInvalid, val |-> None]
            /\ UNCHANGED <<variant, prefix, cwd>>
       ELSE \E a \in WStat("stat", dir) :
            /\ wcalls' = <<WCall("Stat", dir, <<>>, a.err) @@ [info |-> a.info]>>
            /\ IF a.err # Nil
               THEN /\ ret' = [err |-> a.err, val |-> None]
                    /\ UNCHANGED <<variant, prefix, cwd>>
               ELSE /\ ret' = [err |-> Nil, val |-> [kind |-> kind]]
                    /\ variant' = kind
                    /\ prefix' = dir
                    /\ cwd' = <<"/">>

\* the body shared by NewFS and NewFileSystem
Construct(op, kind, dir) ==
    /\ pc' = "returned"
    /\ call' = Call1(op, dir)
    /\ file' = file
    /\ UNCHANGED <<wfs, threads>>
    /\ IF dir = <<>>
       THEN /\ wcalls' = <<>>
            /\ ret' = [err |-> ErrInvalid, val |-> None]
            /\ UNCHANGED <<variant, prefix, cwd>>
       ELSE IF ~IsAbs(dir)
       THEN /\ wcalls' = <<>>
            /\ ret' = [err |-> ErrorString(<<"not an absolute path">>), val |-> None]
            /\ UNCHANGED <<variant, prefix, cwd>>
       ELSE \E a \in WStat("stat", dir) :
            /\ wcalls' = <<WCall("Stat", dir, <<>>, a.err) @@ [info |-> a.info]>>
            /\ IF a.err # Nil
               THEN /\ ret' = [err |-> a.err, val |-> None]
                    /\ UNCHANGED <<variant, prefix, cwd>>
               ELSE IF ~a.info.isDir
               THEN /\ ret' = [err |-> ErrorString(<<"not a directory">>), val |-> None]
                    /\ UNCHANGED <<variant, prefix, cwd>>
               ELSE /\ ret' = [err |-> Nil, val |-> [kind |-> kind]]
                    /\ variant' = kind
                    /\ prefix' = dir
                    /\ cwd' = <<"/">>

Unbuilt == pc = "idle" /\ variant = "none"

NewFS == Unbuilt /\ \E dir \in Dirs : Construct("NewFS", "SymlinkFileSystem", dir)

NewFileSystem == Unbuilt /\ \E dir \in Dirs : Construct("NewFileSystem", "FileSystem", dir)

\* the caller takes the result; the next call can be made
Return ==
    /\ pc = "returned"
    /\ pc' = "idle"
    /\ call' = NoCall
    /\ wcalls' = <<>>
    /\ ret' = [err |-> Nil, val |-> None]
    /\ UNCHANGED <<variant, prefix, cwd, file, wfs, threads>>

----------------------------------------------------------------------------
(* baseFS.Chdir and baseFS.Getwd *)

\* the number of elements of a clean absolute path
Depth(p) == Len(SelectSeq(Split(p), LAMBDA e : e # <<>>))

\* Chdir that stores an absolute dir as it was passed
ChdirFrom_absunclean(bcwd, dir) ==
    IF IsAbs(dir) THEN dir ELSE Join(bcwd, Clean(dir))

\* what Chdir(dir) writes to b.cwd, given the value it reads from b.cwd
ChdirFrom(bcwd, dir) ==
    LET d == Clean(dir) IN
    IF IsAbs(d) THEN d ELSE Join(bcwd, d)

\* the working directory after Chdir(dir)
ChdirTo(dir) == ChdirFrom(cwd, dir)

\* Chdir that asks the wrapped filesystem whether the directory exists
Chdir_checked ==
    /\ pc = "idle"
    /\ variant # "none"
    /\ \E dir \in ChdirArgs :
        /\ Depth(ChdirTo(dir)) <= MaxCwdSegs
        /\ pc' = "returned"
        /\ call' = Call1("Chdir", dir)
        /\ LET p == pathAt(ChdirTo(dir), <<>>) IN
           IF p.err # Nil
           THEN wcalls' = <<>> /\ ret' = [err |-> p.err, val |-> None] /\ cwd' = cwd
           ELSE \E a \in WStat("stat", p.real) :
                /\ wcalls' = <<WCall("Stat", p.real, <<>>, a.err) @@ [info |-> a.info]>>
                /\ ret' = [err |-> fixerr(prefix, a.err), val |-> None]
                /\ cwd' = IF a.err = Nil THEN ChdirTo(dir) ELSE cwd
        /\ UNCHANGED <<variant, prefix, file, wfs, threads>>

Chdir ==
    /\ pc = "idle"
    /\ variant # "none"
    /\ \E dir \in ChdirArgs :
        /\ Depth(ChdirTo(dir)) <= MaxCwdSegs
        /\ cwd' = ChdirTo(dir)
        /\ pc' = "returned"
        /\ call' = Call1("Chdir", dir)
        /\ wcalls' = <<>>
        /\ ret' = [err |-> Nil, val |-> None]
        /\ UNCHANGED <<variant, prefix, file, wfs, threads>>

Getwd ==
    /\ pc = "idle"
    /\ variant # "none"
    /\ file' = file
    /\ Returns(Call1("Getwd", <<>>), <<>>, [err |-> Nil, val |-> [kind |-> "string", s |-> cwd]])

----------------------------------------------------------------------------
(* The facade: SymlinkFileSystem and FileSystem share these methods *)

\* a facade exists and the caller is free to make a path operation (it
\* holds no File: a File keeps no reference to the facade, so the calls on
\* a File and the path operations do not interact)
Ready == pc = "idle" /\ variant # "none" /\ file = None

Err(e) == [err |-> e, val |-> None]

\* ErrOp that delegates before it looks at the translation error
ErrOp_delegatefirst(c, wop, eop, name, fix) ==
    /\ file' = file
    /\ LET p == path(name) IN
       \E e \in WErrs(eop, p.real) :
           Returns(c, <<WCall(wop, p.real, <<>>, e)>>,
                   Err(IF p.err # Nil THEN p.err ELSE IF fix THEN fixerr(prefix, e) ELSE e))

\* ErrOp whose translation stores the name into the working directory
\* instead of reading the working directory for an empty name
ErrOp_cwdclobbered(c, wop, eop, name, fix) ==
    /\ file' = file
    /\ pc' = "returned"
    /\ call' = c
    /\ cwd' = IF name = <<>> THEN <<>> ELSE cwd
    /\ UNCHANGED <<variant, prefix, wfs, threads>>
    /\ LET p == path(name) IN
       IF p.err # Nil
       THEN wcalls' = <<>> /\ ret' = Err(p.err)
       ELSE \E e \in WErrs(eop, p.real) :
                /\ wcalls' = <<WCall(wop, p.real, <<>>, e)>>
                /\ ret' = Err(IF fix THEN fixerr(prefix, e) ELSE e)

\* ErrOp that reports a rejection under its own operation and the virtual name
ErrOp_ownrejection(c, wop, eop, name, fix) ==
    /\ file' = file
    /\ LET p == path(name) IN
       IF p.err # Nil
       THEN Returns(c, <<>>, Err(PathError(eop, name, p.err.cause)))
       ELSE \E e \in WErrs(eop, p.real) :
                Returns(c, <<WCall(wop, p.real, <<>>, e)>>,
                        Err(IF fix THEN fixerr(prefix, e) ELSE e))

\* translate, delegate, hand back the error: sanitized (fix) or as it is
ErrOp(c, wop, eop, name, fix) ==
    /\ file' = file
    /\ LET p == path(name) IN
       IF p.err # Nil
       THEN Returns(c, <<>>, Err(p.err))
       ELSE \E e \in WErrs(eop, p.real) :
                Returns(c, <<WCall(wop, p.real, <<>>, e)>>,
                        Err(IF fix THEN fixerr(prefix, e) ELSE e))

Mkdir == Ready /\ \E name \in VPaths : ErrOp(Call1("Mkdir", name), "Mkdir", "mkdir", name, TRUE)

Remove == Ready /\ \E name \in VPaths : ErrOp(Call1("Remove", name), "Remove", "remove", name, TRUE)

Chmod == Ready /\ \E name \in VPaths : ErrOp(Call1("Chmod", name), "Chmod", "chmod", name, TRUE)

Chtimes == Ready /\ \E name \in VPaths : ErrOp(Call1("Chtimes", name), "Chtimes", "chtimes", name, TRUE)

Chown == Ready /\ \E name \in VPaths : ErrOp(Call1("Chown", name), "Chown", "chown", name, TRUE)

MkdirAll == Ready /\ \E name \in VPaths : ErrOp(Call1("MkdirAll", name), "MkdirAll", "mkdir", name, FALSE)

RemoveAll == Ready /\ \E name \in VPaths : ErrOp(Call1("RemoveAll", name), "RemoveAll", "remove", name, FALSE)

Truncate == Ready /\ \E name \in VPaths : ErrOp(Call1("Truncate", name), "Truncate", "truncate", name, FALSE)

Lchown ==
    /\ Ready
    /\ variant = "SymlinkFileSystem"
    /\ \E name \in VPaths : ErrOp(Call1("Lchown", name), "Lchown", "lchown", name, TRUE)

\* Rename that translates the new path before the old one
Rename_newfirst ==
    /\ Ready
    /\ \E oldname \in PairPaths, newname \in PairPaths :
        /\ file' = file
        /\ LET c == Call2("Rename", oldname, newname)
               old == path(oldname)
               new == path(newname)
           IN IF new.err # Nil
              THEN Returns(c, <<>>, Err(LinkError("rename", oldname, newname, new.err)))
              ELSE IF old.err # Nil
              THEN Returns(c, <<>>, Err(LinkError("rename", oldname, newname, old.err)))
              ELSE \E e \in WErrs2("rename", old.real, new.real) :
                       Returns(c, <<WCall("Rename", old.real, new.real, e)>>,
                               Err(fixerr(prefix, e)))

Rename ==
    /\ Ready
    /\ \E oldname \in PairPaths, newname \in PairPaths :
        /\ file' = file
        /\ LET c == Call2("Rename", oldname, newname)
               old == path(oldname)
               new == path(newname)
           IN IF old.err # Nil
              THEN Returns(c, <<>>, Err(LinkError("rename", oldname, newname, old.err)))
              ELSE IF new.err # Nil
              THEN Returns(c, <<>>, Err(LinkError("rename", oldname, newname, new.err)))
              ELSE \E e \in WErrs2("rename", old.real, new.real) :
                       Returns(c, <<WCall("Rename", old.real, new.real, e)>>,
                               Err(fixerr(prefix, e)))

\* the File a successful Open, Create or OpenFile returns
File(real, name) == [kind |-> "File", f |-> real, prefix |-> prefix, name |-> name]

InvalidFile == [kind |-> "InvalidFile"]

\* translate, open on the wrapped filesystem, wrap the real handle
OpenOp(c, wop, name, fix, failval) ==
    /\ LET p == path(name) IN
       IF p.err # Nil
       THEN /\ Returns(c, <<>>, [err |-> p.err, val |-> failval])
            /\ file' = file
       ELSE \E e \in WErrs("open", p.real) :
            IF e # Nil
            THEN /\ Returns(c, <<WCall(wop, p.real, <<>>, e)>>,
                            [err |-> IF fix THEN fixerr(prefix, e) ELSE e, val |-> failval])
                 /\ file' = file
            ELSE /\ Returns(c, <<WCall(wop, p.real, <<>>, e)>>,
                            [err |-> Nil, val |-> File(p.real, name)])
                 /\ file' = File(p.real, name)

Open == Ready /\ \E name \in VPaths : OpenOp(Call1("Open", name), "Open", name, TRUE, None)

Create == Ready /\ \E name \in VPaths : OpenOp(Call1("Create", name), "Create", name, FALSE, None)

OpenFile == Ready /\ \E name \in VPaths : OpenOp(Call1("OpenFile", name), "OpenFile", name, FALSE, InvalidFile)

\* the fileinfo wrapper that keeps the name of the wrapped info
FileInfo_realname(info, name) == [kind |-> "fileinfo", info |-> info, name |-> info.name]

\* the fileinfo wrapper: the wrapped info under another name
FileInfo(info, name) == [kind |-> "fileinfo", info |-> info, name |-> name]

\* the methods of fileinfo
fileinfo_Name(i) == i.name

fileinfo_Size(i) == i.info.size

fileinfo_ModTime(i) == i.info.modTime

fileinfo_Mode(i) == i.info.mode

fileinfo_Sys(i) == i.info.sys

fileinfo_IsDir(i) == i.info.isDir

Stat ==
    /\ Ready
    /\ \E name \in VPaths :
        /\ file' = file
        /\ LET c == Call1("Stat", name)
               p == path(name)
           IN IF p.err # Nil
              THEN Returns(c, <<>>, Err(p.err))
              ELSE \E a \in WStat("stat", p.real) :
                   LET w == <<WCall("Stat", p.real, <<>>, a.err) @@ [info |-> a.info]>> IN
                   IF a.err # Nil
                   THEN Returns(c, w, Err(fixerr(prefix, a.err)))
                   ELSE Returns(c, w, [err |-> Nil, val |-> FileInfo(a.info, Base(name))])

Lstat ==
    /\ Ready
    /\ variant = "SymlinkFileSystem"
    /\ \E name \in VPaths :
        /\ file' = file
        /\ LET c == Call1("Lstat", name)
               p == path(name)
           IN IF p.err # Nil
              THEN Returns(c, <<>>, Err(p.err))
              ELSE \E a \in WStat("lstat", p.real) :
                       Returns(c, <<WCall("Lstat", p.real, <<>>, a.err) @@ [info |-> a.info]>>,
                               [err |-> fixerr(prefix, a.err), val |-> a.info])

\* what the wrapped TempDir can answer
TmpDirs == {<<"/", "t">>, <<"/", "b", "/", "t">>, <<"/", "b", "f", "/", "t">>, <<"/", "b">>}

DefaultTmp == <<"/", "t", "m", "p">>

String(s) == [kind |-> "string", s |-> s]

TempDir ==
    /\ Ready
    /\ file' = file
    /\ \E tmpdir \in TmpDirs :
           Returns(Call1("TempDir", <<>>),
                   <<WCall("TempDir", <<>>, <<>>, Nil) @@ [val |-> tmpdir]>>,
                   [err |-> Nil,
                    val |-> IF HasPrefix(tmpdir, prefix \o <<"/">>)
                            THEN String(TrimPrefix(tmpdir, prefix))
                            ELSE String(DefaultTmp)])

\* the link targets the wrapped Readlink can answer
WTargets == {<<"e">>, <<".", ".", "/", "e">>, <<"/", "b", "/", "e">>,
             <<"/", "b", "f", "/", "e">>, <<"/", "b">>, <<"/", "e">>}

\* the reverse mapping of a link target (SymlinkFileSystem.Readlink)
VirtualTarget(target) ==
    IF ~IsAbs(target) THEN target
    ELSE IF HasPrefix(target, prefix)
         THEN LET t == TrimPrefix(target, prefix) IN
              Clean(IF t = <<>> \/ ~HasPrefix(t, <<"/">>) THEN <<"/">> \o t ELSE t)
         ELSE target

Readlink ==
    /\ Ready
    /\ variant = "SymlinkFileSystem"
    /\ \E name \in VPaths :
        /\ file' = file
        /\ LET c == Call1("Readlink", name)
               p == path(name)
           IN IF p.err # Nil
              THEN Returns(c, <<>>, [err |-> p.err, val |-> String(<<>>)])
              ELSE \/ \E e \in WErrs("readlink", p.real) \ {Nil} :
                          Returns(c, <<WCall("Readlink", p.real, <<>>, e)>>,
                                  [err |-> fixerr(prefix, e), val |-> String(<<>>)])
                   \/ \E target \in WTargets :
                          Returns(c, <<WCall("Readlink", p.real, <<>>, Nil) @@ [val |-> target]>>,
                                  [err |-> Nil, val |-> String(VirtualTarget(target))])

\* Symlink that translates the target whether it is absolute or not
Symlink_translatesall ==
    /\ Ready
    /\ variant = "SymlinkFileSystem"
    /\ \E oldname \in PairPaths, newname \in PairPaths :
        /\ file' = file
        /\ LET c == Call2("Symlink", oldname, newname)
               pnew == path(newname)
               pold == path(oldname)
           IN IF pnew.err # Nil
              THEN Returns(c, <<>>, Err(pnew.err))
              ELSE IF pold.err # Nil
              THEN Returns(c, <<>>, Err(pold.err))
              ELSE \E e \in WErrs2("symlink", pold.real, pnew.real) :
                       Returns(c, <<WCall("Symlink", pold.real, pnew.real, e)>>,
                               Err(fixerr(prefix, e)))

Symlink ==
    /\ Ready
    /\ variant = "SymlinkFileSystem"
    /\ \E oldname \in PairPaths, newname \in PairPaths :
        /\ file' = file
        /\ LET c == Call2("Symlink", oldname, newname)
               pnew == path(newname)
               pold == IF IsAbs(oldname) THEN path(oldname) ELSE [real |-> oldname, err |-> Nil]
           IN IF pnew.err # Nil
              THEN Returns(c, <<>>, Err(pnew.err))
              ELSE IF pold.err # Nil
              THEN Returns(c, <<>>, Err(pold.err))
              ELSE \E e \in WErrs2("symlink", pold.real, pnew.real) :
                       Returns(c, <<WCall("Symlink", pold.real, pnew.real, e)>>,
                               Err(fixerr(prefix, e)))

\* translate, delegate, hand back the wrapped result with the error
ValOp(c, wop, eop, name, kind, fix) ==
    /\ file' = file
    /\ LET p == path(name) IN
       IF p.err # Nil
       THEN Returns(c, <<>>, Err(p.err))
       ELSE \E e \in WErrs(eop, p.real) :
                Returns(c, <<WCall(wop, p.real, <<>>, e)>>,
                        [err |-> IF fix THEN fixerr(prefix, e) ELSE e,
                         val |-> IF e = Nil THEN [kind |-> kind, of |-> p.real] ELSE None])

ReadDir == Ready /\ \E name \in VPaths : ValOp(Call1("ReadDir", name), "ReadDir", "readdir", name, "entries", TRUE)

ReadFile == Ready /\ \E name \in VPaths : ValOp(Call1("ReadFile", name), "ReadFile", "read", name, "bytes", TRUE)

Sub == Ready /\ \E dir \in VPaths : ValOp(Call1("Sub", dir), "FilerToFS", "sub", dir, "fs.FS", FALSE)

----------------------------------------------------------------------------
(* Introspection (utils.go) *)

\* the wrapped filesystem as a value
Wrapped == [kind |-> "wrapped"]

\* the filesystem values a caller can hand to Unwrap and Prefix: the wrapped
\* filesystem and, once built, the facade
FsValues == {Wrapped} \cup (IF variant = "none" THEN {} ELSE {[kind |-> variant]})

Unwrap ==
    /\ pc = "idle"
    /\ file = None
    /\ file' = file
    /\ \E fs \in FsValues :
           Returns(Call1("Unwrap", <<>>) @@ [fs |-> fs], <<>>,
                   [err |-> Nil, val |-> IF fs.kind = "FileSystem" THEN Wrapped ELSE fs])

Prefix ==
    /\ pc = "idle"
    /\ file = None
    /\ file' = file
    /\ \E fs \in FsValues :
           Returns(Call1("Prefix", <<>>) @@ [fs |-> fs], <<>>,
                   [err |-> Nil, val |-> String(IF fs.kind = "FileSystem" THEN prefix ELSE <<>>)])

----------------------------------------------------------------------------
(* File: the confined handle (basefile.go) *)

Holding == pc = "idle" /\ file # None

\* what a call on the real handle can answer: a count with no error, end
\* of file, or a path error naming the real path
HAnswers(eop, real) ==
    {[n |-> 1, err |-> Nil], [n |-> 0, err |-> EOF],
     [n |-> 0, err |-> PathError(eop, real, ErrPermission)]}

FileReturns(c, w, r) ==
    /\ pc' = "returned"
    /\ call' = c
    /\ wcalls' = w
    /\ ret' = r
    /\ UNCHANGED <<variant, prefix, cwd, file, wfs, threads>>

\* delegate to the real handle, hand back its count and the sanitized error
CountOp(op, eop) ==
    /\ \E a \in HAnswers(eop, file.f) :
           FileReturns(Call1(op, file.name),
                       <<WCall(op, file.f, <<>>, a.err) @@ [n |-> a.n]>>,
                       [err |-> fixerr(file.prefix, a.err), val |-> [kind |-> "count", n |-> a.n]])

FileRead == Holding /\ CountOp("File.Read", "read")

FileReadAt == Holding /\ CountOp("File.ReadAt", "read")

FileWrite == Holding /\ CountOp("File.Write", "write")

FileWriteAt == Holding /\ CountOp("File.WriteAt", "write")

FileWriteString == Holding /\ CountOp("File.WriteString", "write")

FileSeek == Holding /\ CountOp("File.Seek", "seek")

FileReaddir == Holding /\ CountOp("File.Readdir", "readdir")

FileReaddirnames == Holding /\ CountOp("File.Readdirnames", "readdir")

\* delegate to the real handle, hand back the sanitized error
HandleErrOp(op, eop) ==
    /\ \E a \in HAnswers(eop, file.f) :
           FileReturns(Call1(op, file.name),
                       <<WCall(op, file.f, <<>>, a.err)>>,
                       Err(fixerr(file.prefix, a.err)))

FileClose == Holding /\ HandleErrOp("File.Close", "close")

FileSync == Holding /\ HandleErrOp("File.Sync", "sync")

FileTruncate == Holding /\ HandleErrOp("File.Truncate", "truncate")

FileName ==
    /\ Holding
    /\ FileReturns(Call1("File.Name", file.name), <<>>, [err |-> Nil, val |-> String(file.name)])

FileStat ==
    /\ Holding
    /\ \E a \in WStat("stat", file.f) :
       LET w == <<WCall("File.Stat", file.f, <<>>, a.err) @@ [info |-> a.info]>> IN
       IF a.err # Nil
       THEN FileReturns(Call1("File.Stat", file.name), w, Err(fixerr(file.prefix, a.err)))
       ELSE FileReturns(Call1("File.Stat", file.name), w,
                        [err |-> Nil, val |-> FileInfo(a.info, Base(file.name))])

\* the caller lets go of the File
Drop ==
    /\ Holding
    /\ file' = None
    /\ UNCHANGED <<variant, prefix, cwd, pc, call, wcalls, ret, wfs, threads>>

----------------------------------------------------------------------------
(* Specification *)

Next ==
    \/ NewFS
    \/ NewFileSystem
    \/ Return
    \/ Chdir
    \/ Getwd
    \/ Mkdir
    \/ Remove
    \/ Chmod
    \/ Chtimes
    \/ Chown
    \/ Lchown
    \/ MkdirAll
    \/ RemoveAll
    \/ Truncate
    \/ Rename
    \/ Symlink
    \/ Open
    \/ Create
    \/ OpenFile
    \/ Stat
    \/ Lstat
    \/ Readlink
    \/ ReadDir
    \/ ReadFile
    \/ Sub
    \/ TempDir
    \/ Unwrap
    \/ Prefix
    \/ FileRead
    \/ FileReadAt
    \/ FileWrite
    \/ FileWriteAt
    \/ FileWriteString
    \/ FileSeek
    \/ FileReaddir
    \/ FileReaddirnames
    \/ FileClose
    \/ FileSync
    \/ FileTruncate
    \/ FileName
    \/ FileStat
    \/ Drop

Spec == Init /\ [][Next]_vars

----------------------------------------------------------------------------
(* Symbolic links on a wrapped filesystem that stores targets verbatim *)

\* the bases of the facade in the specifications that fix the wrapped contents
StoreBases == {<<"/", "b">>, <<"/">>}

\* the targets handed to Symlink
LinkTargets == {<<"e">>, <<".", ".", "/", "e">>, <<"e", "/", ".", ".">>, <<"/", "e">>,
                <<"/", "e", "/", ".", ".", "/", "b">>, <<"/", ".", ".", "/", "b">>}

\* the link names handed to Symlink, Readlink and Remove
LinkNames == {<<"/", "e">>, <<"b">>}

EEXIST == Sentinel("file exists")
EINVAL == Sentinel("invalid argument")

\* the links the wrapped filesystem holds: real path -> the target it was
\* given; asked is a history field, the target the caller of Symlink wrote
NoLinks == [kind |-> "links", links |-> <<>>]

HasLink(real) == \E i \in 1..Len(wfs.links) : wfs.links[i].at = real

LinkAt(real) == CHOOSE l \in {wfs.links[i] : i \in 1..Len(wfs.links)} : l.at = real

InitLink ==
    /\ variant = "SymlinkFileSystem"
    /\ prefix \in StoreBases
    /\ cwd = <<"/">>
    /\ file = None
    /\ pc = "idle"
    /\ call = NoCall
    /\ wcalls = <<>>
    /\ ret = [err |-> Nil, val |-> None]
    /\ wfs = NoLinks
    /\ threads = NoThreads

\* SymlinkFileSystem.Symlink on the storing filesystem
LinkSymlink ==
    /\ Ready
    /\ \E oldname \in LinkTargets, newname \in LinkNames :
        /\ file' = file
        /\ pc' = "returned"
        /\ call' = Call2("Symlink", oldname, newname)
        /\ UNCHANGED <<variant, prefix, cwd>>
        /\ LET pnew == path(newname)
               pold == IF IsAbs(oldname) THEN path(oldname) ELSE [real |-> oldname, err |-> Nil]
           IN IF pnew.err # Nil
              THEN wcalls' = <<>> /\ ret' = Err(pnew.err) /\ UNCHANGED <<wfs, threads>>
              ELSE IF pold.err # Nil
              THEN wcalls' = <<>> /\ ret' = Err(pold.err) /\ UNCHANGED <<wfs, threads>>
              ELSE IF HasLink(pnew.real)
              THEN LET e == LinkError("symlink", pold.real, pnew.real, EEXIST) IN
                   /\ wcalls' = <<WCall("Symlink", pold.real, pnew.real, e)>>
                   /\ ret' = Err(fixerr(prefix, e))
                   /\ UNCHANGED <<wfs, threads>>
              ELSE /\ wcalls' = <<WCall("Symlink", pold.real, pnew.real, Nil)>>
                   /\ ret' = Err(Nil)
                   /\ threads' = threads /\ wfs' = [wfs EXCEPT !.links =
                                 Append(@, [at |-> pnew.real, target |-> pold.real,
                                            asked |-> oldname])]

\* SymlinkFileSystem.Readlink on the storing filesystem
LinkReadlink ==
    /\ Ready
    /\ \E name \in LinkNames :
        /\ file' = file
        /\ UNCHANGED <<wfs, threads>>
        /\ LET c == Call1("Readlink", name)
               p == path(name)
           IN IF p.err # Nil
              THEN Returns(c, <<>>, [err |-> p.err, val |-> String(<<>>)])
              ELSE IF ~HasLink(p.real)
              THEN LET e == PathError("readlink", p.real, EINVAL) IN
                   Returns(c, <<WCall("Readlink", p.real, <<>>, e)>>,
                           [err |-> fixerr(prefix, e), val |-> String(<<>>)])
              ELSE LET target == LinkAt(p.real).target IN
                   Returns(c, <<WCall("Readlink", p.real, <<>>, Nil) @@ [val |-> target]>>,
                           [err |-> Nil, val |-> String(VirtualTarget(target))])

\* SymlinkFileSystem.Remove on the storing filesystem
LinkRemove ==
    /\ Ready
    /\ \E name \in LinkNames :
        /\ file' = file
        /\ pc' = "returned"
        /\ call' = Call1("Remove", name)
        /\ UNCHANGED <<variant, prefix, cwd>>
        /\ LET p == path(name) IN
           IF p.err # Nil
           THEN wcalls' = <<>> /\ ret' = Err(p.err) /\ UNCHANGED <<wfs, threads>>
           ELSE IF ~HasLink(p.real)
           THEN LET e == PathError("remove", p.real, ENOENT) IN
                /\ wcalls' = <<WCall("Remove", p.real, <<>>, e)>>
                /\ ret' = Err(fixerr(prefix, e))
                /\ UNCHANGED <<wfs, threads>>
           ELSE /\ wcalls' = <<WCall("Remove", p.real, <<>>, Nil)>>
                /\ ret' = Err(Nil)
                /\ threads' = threads /\ wfs' = [wfs EXCEPT !.links = SelectSeq(@, LAMBDA l : l.at # p.real)]

NextLink ==
    \/ LinkSymlink
    \/ LinkReadlink
    \/ LinkRemove
    \/ Return

SpecLink == InitLink /\ [][NextLink]_vars

----------------------------------------------------------------------------
(* Walk and FastWalk, on a wrapped filesystem with a fixed tree *)

\* the error of a walk on a wrapped filesystem that cannot walk
ErrUnsupported == Sentinel("unsupported")

Node(at, isDir) == [at |-> at, isDir |-> isDir]

\* the entries every tree has, and the entries a tree may have
TreeFixed == {Node(<<"/">>, TRUE), Node(<<"/", "b">>, TRUE)}

TreeOptional == {Node(<<"/", "b", "/", "e">>, TRUE), Node(<<"/", "b", "/", "e", "/", "e">>, FALSE),
                 Node(<<"/", "b", "/", "b">>, FALSE), Node(<<"/", "b", "f">>, FALSE)}

\* the trees of the wrapped filesystem: an entry has its directory
Trees == {TreeFixed \cup S : S \in {T \in SUBSET TreeOptional :
              Node(<<"/", "b", "/", "e", "/", "e">>, FALSE) \in T
                  => Node(<<"/", "b", "/", "e">>, TRUE) \in T}}

\* the roots handed to Walk and FastWalk
WalkRoots == {<<"/">>, <<".", ".">>}

InitWalk ==
    /\ variant \in {"SymlinkFileSystem", "FileSystem"}
    /\ prefix \in StoreBases
    /\ cwd = <<"/">>
    /\ file = None
    /\ pc = "idle"
    /\ call = NoCall
    /\ wcalls = <<>>
    /\ ret = [err |-> Nil, val |-> None]
    /\ wfs \in {[kind |-> "tree", nodes |-> T, walker |-> w] : T \in Trees, w \in BOOLEAN}
    /\ threads = NoThreads

\* the entry at is the directory dir or lies in the tree below it
Under(at, dir) == at = dir \/ HasPrefix(at, IF dir = <<"/">> THEN dir ELSE dir \o <<"/">>)

\* the entries the wrapped walk visits from real: real and all below it
Visited(real) == {n \in wfs.nodes : Under(n.at, real)}

\* the orders in which the entries of S can be visited
RECURSIVE Orders(_)
Orders(S) ==
    IF S = {} THEN {<<>>}
    ELSE UNION {{<<n>> \o o : o \in Orders(S \ {n})} : n \in S}

\* a directory is visited before the entries below it
ParentsFirst(order) ==
    \A i, j \in 1..Len(order) : (i # j /\ Under(order[j].at, order[i].at)) => i < j

\* reverseMap that hands the real path on as it is
reverseMap_unmapped(real) == real

\* reverseMap: the base prefix stripped, the virtual root for the base itself
reverseMap(real) ==
    IF ~HasPrefix(real, prefix) THEN real
    ELSE LET rest == TrimPrefix(real, prefix) IN
         IF rest = <<>> THEN <<"/">> ELSE rest

\* translate the root, walk the wrapped filesystem if it can walk, deliver
\* each visited entry to the callback under its reverse-mapped path
WalkOp(op, root, parentsFirst) ==
    /\ file' = file
    /\ LET c == Call1(op, root)
           p == path(root)
       IN IF p.err # Nil
          THEN Returns(c, <<>>, Err(p.err))
          ELSE IF ~wfs.walker
          THEN Returns(c, <<>>, Err(ErrUnsupported))
          ELSE \E order \in Orders(Visited(p.real)) :
                   /\ parentsFirst => ParentsFirst(order)
                   /\ Returns(c, <<WCall(op, p.real, <<>>, Nil) @@ [visits |-> order]>>,
                              [err |-> Nil,
                               val |-> [kind |-> "callbacks",
                                        paths |-> [i \in 1..Len(order) |->
                                                      reverseMap(order[i].at)]]])

Walk == Ready /\ \E root \in WalkRoots : WalkOp("Walk", root, TRUE)

FastWalk == Ready /\ \E root \in WalkRoots : WalkOp("FastWalk", root, FALSE)

NextWalk ==
    \/ Walk
    \/ FastWalk
    \/ Return

SpecWalk == InitWalk /\ [][NextWalk]_vars

----------------------------------------------------------------------------
(* Files on a wrapped filesystem that stores what is written *)

\* the names handed to Create and Open
FileNames == {<<"/", "e">>, <<"/", "b">>, <<"e">>, <<"/", ".", ".", "/", "e">>}

\* what a caller writes in one call, and the sizes of the buffers it reads into
Writes == {<<"h">>, <<"i">>, <<"h", "i">>}

ReadSizes == {1, 2}

EBADF == Sentinel("bad file descriptor")

NoHandle == [kind |-> "nil"]

\* the files the wrapped filesystem holds (real path -> content) and the
\* position of the real handle behind the caller's File
NoFiles == [kind |-> "files", files |-> {}, open |-> NoHandle]

\* the wrapped filesystem's lookup: a name reaches the file at its cleaned form
HasFileIn(files, real) == \E f \in files : f.at = Clean(real)

DataIn(files, real) == (CHOOSE f \in files : f.at = Clean(real)).data

HasFile(real) == HasFileIn(wfs.files, real)

DataAt(real) == DataIn(wfs.files, real)

\* the files after the content at real is set to data
Stored(real, data) ==
    {f \in wfs.files : f.at # Clean(real)} \cup {[at |-> Clean(real), data |-> data]}

\* data with b written at offset off
Overwrite(data, off, b) ==
    SubSeq(data, 1, off) \o b \o SubSeq(data, off + Len(b) + 1, Len(data))

\* the bytes a read of at most size bytes at offset off takes from data
ReadFrom(data, off, size) ==
    SubSeq(data, off + 1, IF off + size < Len(data) THEN off + size ELSE Len(data))

InitFile ==
    /\ variant \in {"SymlinkFileSystem", "FileSystem"}
    /\ prefix \in StoreBases
    /\ cwd = <<"/">>
    /\ file = None
    /\ pc = "idle"
    /\ call = NoCall
    /\ wcalls = <<>>
    /\ ret = [err |-> Nil, val |-> None]
    /\ wfs = NoFiles
    /\ threads = NoThreads

\* Create on the storing filesystem: the file is made or emptied
FsCreate ==
    /\ Ready
    /\ \E name \in FileNames :
        /\ pc' = "returned"
        /\ call' = Call1("Create", name)
        /\ UNCHANGED <<variant, prefix, cwd>>
        /\ LET p == path(name) IN
           IF p.err # Nil
           THEN /\ wcalls' = <<>> /\ ret' = [err |-> p.err, val |-> None]
                /\ file' = file /\ UNCHANGED <<wfs, threads>>
           ELSE /\ wcalls' = <<WCall("Create", p.real, <<>>, Nil)>>
                /\ ret' = [err |-> Nil, val |-> File(p.real, name)]
                /\ file' = File(p.real, name)
                /\ threads' = threads /\ wfs' = [wfs EXCEPT !.files = Stored(p.real, <<>>),
                                      !.open = [at |-> p.real, off |-> 0, writable |-> TRUE]]

\* Open on the storing filesystem: read-only, from the start
FsOpen ==
    /\ Ready
    /\ \E name \in FileNames :
        /\ pc' = "returned"
        /\ call' = Call1("Open", name)
        /\ UNCHANGED <<variant, prefix, cwd>>
        /\ LET p == path(name) IN
           IF p.err # Nil
           THEN /\ wcalls' = <<>> /\ ret' = [err |-> p.err, val |-> None]
                /\ file' = file /\ UNCHANGED <<wfs, threads>>
           ELSE IF ~HasFile(p.real)
           THEN LET e == PathError("open", p.real, ENOENT) IN
                /\ wcalls' = <<WCall("Open", p.real, <<>>, e)>>
                /\ ret' = [err |-> fixerr(prefix, e), val |-> None]
                /\ file' = file /\ UNCHANGED <<wfs, threads>>
           ELSE /\ wcalls' = <<WCall("Open", p.real, <<>>, Nil)>>
                /\ ret' = [err |-> Nil, val |-> File(p.real, name)]
                /\ file' = File(p.real, name)
                /\ threads' = threads /\ wfs' = [wfs EXCEPT !.open = [at |-> p.real, off |-> 0, writable |-> FALSE]]

\* File.Write on the storing filesystem
FsWrite ==
    /\ Holding
    /\ \E b \in Writes :
        /\ wfs.open.off + Len(b) <= MaxData
        /\ pc' = "returned"
        /\ call' = Call1("File.Write", file.name) @@ [bytes |-> b]
        /\ UNCHANGED <<variant, prefix, cwd, file>>
        /\ LET h == wfs.open IN
           IF ~h.writable
           THEN LET e == PathError("write", h.at, EBADF) IN
                /\ wcalls' = <<WCall("File.Write", h.at, <<>>, e) @@ [n |-> 0]>>
                /\ ret' = [err |-> fixerr(file.prefix, e), val |-> [kind |-> "count", n |-> 0]]
                /\ UNCHANGED <<wfs, threads>>
           ELSE /\ wcalls' = <<WCall("File.Write", h.at, <<>>, Nil) @@ [n |-> Len(b)]>>
                /\ ret' = [err |-> Nil, val |-> [kind |-> "count", n |-> Len(b)]]
                /\ threads' = threads /\ wfs' = [wfs EXCEPT !.files = Stored(h.at, Overwrite(DataAt(h.at), h.off, b)),
                                      !.open.off = h.off + Len(b)]

\* File.Read on the storing filesystem: the bytes read fill the caller's buffer
FsRead ==
    /\ Holding
    /\ \E size \in ReadSizes :
        /\ pc' = "returned"
        /\ call' = Call1("File.Read", file.name) @@ [size |-> size]
        /\ UNCHANGED <<variant, prefix, cwd, file>>
        /\ LET h == wfs.open
               got == ReadFrom(DataAt(h.at), h.off, size)
               e == IF got = <<>> THEN EOF ELSE Nil
           IN /\ wcalls' = <<WCall("File.Read", h.at, <<>>, e) @@ [n |-> Len(got)]>>
              /\ ret' = [err |-> fixerr(file.prefix, e),
                         val |-> [kind |-> "count", n |-> Len(got), p |-> got]]
              /\ threads' = threads /\ wfs' = [wfs EXCEPT !.open.off = h.off + Len(got)]

\* File.Close on the storing filesystem, after which the caller lets go of
\* the File
FsClose ==
    /\ Holding
    /\ pc' = "returned"
    /\ call' = Call1("File.Close", file.name)
    /\ wcalls' = <<WCall("File.Close", wfs.open.at, <<>>, Nil)>>
    /\ ret' = Err(fixerr(file.prefix, Nil))
    /\ file' = None
    /\ threads' = threads /\ wfs' = [wfs EXCEPT !.open = NoHandle]
    /\ UNCHANGED <<variant, prefix, cwd>>

NextFile ==
    \/ FsCreate
    \/ FsOpen
    \/ FsWrite
    \/ FsRead
    \/ FsClose
    \/ Return

SpecFile == InitFile /\ [][NextFile]_vars

----------------------------------------------------------------------------
(* The facade over a wrapped filesystem that counts its handles: every     *)
(* open on it makes a new real handle, a real handle remembers how many    *)
(* Close calls it received, and a closed real handle answers               *)
(* os.ErrClosed to whatever is called on it.                               *)

\* opens kept by the wrapped filesystem
MaxOpens == 2

\* Close calls of the caller on one File
MaxCloses == 2

ErrClosed == Sentinel("file already closed")

HandleNames == {<<"/", "f">>, <<"f">>, <<"/", ".", ".", "/", "e">>}

NoHandles == [kind |-> "handles", handles |-> <<>>]

InitHandle ==
    /\ variant \in {"SymlinkFileSystem", "FileSystem"}
    /\ prefix \in StoreBases
    /\ cwd = <<"/">>
    /\ file = None
    /\ pc = "idle"
    /\ call = NoCall
    /\ wcalls = <<>>
    /\ ret = [err |-> Nil, val |-> None]
    /\ wfs = NoHandles
    /\ threads = NoThreads

\* translate, open on the handle-counting filesystem, wrap the real handle
HandleOpenOp(op, fix, failval) ==
    /\ Len(wfs.handles) < MaxOpens
    /\ \E name \in HandleNames :
        /\ pc' = "returned"
        /\ call' = Call1(op, name)
        /\ UNCHANGED <<variant, prefix, cwd, threads>>
        /\ LET p == path(name) IN
           IF p.err # Nil
           THEN /\ wcalls' = <<>> /\ ret' = [err |-> p.err, val |-> failval]
                /\ UNCHANGED <<file, wfs>>
           ELSE \E e \in {Nil, PathError("open", p.real, ENOENT)} :
                IF e # Nil
                THEN /\ wcalls' = <<WCall(op, p.real, <<>>, e)>>
                     /\ ret' = [err |-> IF fix THEN fixerr(prefix, e) ELSE e, val |-> failval]
                     /\ UNCHANGED <<file, wfs>>
                ELSE LET h == Len(wfs.handles) + 1
                         f == [kind |-> "File", f |-> h, prefix |-> prefix, name |-> name]
                     IN /\ wcalls' = <<WCall(op, p.real, <<>>, Nil) @@ [handle |-> h]>>
                        /\ ret' = [err |-> Nil, val |-> f]
                        /\ file' = f
                        /\ wfs' = [wfs EXCEPT !.handles =
                                      Append(@, [at |-> p.real, closed |-> FALSE, closes |-> 0])]

HandleOpen == Ready /\ HandleOpenOp("Open", TRUE, None)

HandleCreate == Ready /\ HandleOpenOp("Create", FALSE, None)

HandleOpenFile == Ready /\ HandleOpenOp("OpenFile", FALSE, InvalidFile)

\* File.Read on a real handle that may be closed
HandleRead ==
    /\ Holding
    /\ LET h == wfs.handles[file.f] IN
       \E a \in IF h.closed
                THEN {[n |-> 0, err |-> PathError("read", h.at, ErrClosed)]}
                ELSE {[n |-> 1, err |-> Nil], [n |-> 0, err |-> EOF]} :
           FileReturns(Call1("File.Read", file.name),
                       <<WCall("File.Read", h.at, <<>>, a.err) @@ [n |-> a.n, handle |-> file.f]>>,
                       [err |-> fixerr(file.prefix, a.err), val |-> [kind |-> "count", n |-> a.n]])

\* File.Close that keeps a closed real handle from being closed again
HandleClose_once ==
    /\ Holding
    /\ wfs.handles[file.f].closes < MaxCloses
    /\ LET h == wfs.handles[file.f] IN
       IF h.closed
       THEN FileReturns(Call1("File.Close", file.name), <<>>, Err(Nil))
       ELSE /\ pc' = "returned"
            /\ call' = Call1("File.Close", file.name)
            /\ wcalls' = <<WCall("File.Close", h.at, <<>>, Nil) @@ [handle |-> file.f]>>
            /\ ret' = Err(fixerr(file.prefix, Nil))
            /\ wfs' = [wfs EXCEPT !.handles[file.f].closed = TRUE,
                                  !.handles[file.f].closes = @ + 1]
            /\ UNCHANGED <<variant, prefix, cwd, file, threads>>

\* File.Close: the Close of the real handle, whatever state it is in
HandleClose ==
    /\ Holding
    /\ wfs.handles[file.f].closes < MaxCloses
    /\ LET h == wfs.handles[file.f]
           e == IF h.closed THEN PathError("close", h.at, ErrClosed) ELSE Nil
       IN /\ pc' = "returned"
          /\ call' = Call1("File.Close", file.name)
          /\ wcalls' = <<WCall("File.Close", h.at, <<>>, e) @@ [handle |-> file.f]>>
          /\ ret' = Err(fixerr(file.prefix, e))
          /\ wfs' = [wfs EXCEPT !.handles[file.f].closed = TRUE,
                                !.handles[file.f].closes = @ + 1]
          /\ UNCHANGED <<variant, prefix, cwd, file, threads>>

NextHandle ==
    \/ HandleOpen
    \/ HandleCreate
    \/ HandleOpenFile
    \/ HandleRead
    \/ HandleClose
    \/ Drop
    \/ Return

SpecHandle == InitHandle /\ [][NextHandle]_vars

----------------------------------------------------------------------------
(* Goroutines sharing one baseFS.  b.cwd is a Go string: two words, the    *)
(* data pointer and the length, which Chdir and path read and write with   *)
(* no lock and one word at a time.  Two goroutines call Chdir and a third  *)
(* resolves the empty name.  The caller either lets them run freely or     *)
(* serializes the calls with a lock of its own.                            *)

ChdirThreads == {1, 2}

PathThread == 3

Words == {"data", "len"}

\* the directories the two goroutines change to
RaceArgs == {<<"e">>, <<".", ".">>, <<"/", "b">>}

\* the working directory the goroutines start from
RaceCwds == {<<"/">>, <<"/", "e">>}

\* the string a header denotes: len bytes from the data pointer; the bytes
\* past the end of the allocation are unknown
StringOf(hdr) ==
    IF hdr.len <= Len(hdr.data)
    THEN SubSeq(hdr.data, 1, hdr.len)
    ELSE hdr.data \o [i \in 1..(hdr.len - Len(hdr.data)) |-> "?"]

Header(s) == [data |-> s, len |-> Len(s)]

\* a goroutine before its call
Goroutine(op, arg) ==
    [op |-> op, arg |-> arg, at |-> "ready", left |-> Words,
     hdr |-> Header(<<>>), new |-> <<>>, res |-> None]

InitRace ==
    /\ variant = "FileSystem"
    /\ prefix = <<"/", "b">>
    /\ cwd \in RaceCwds
    /\ file = None
    /\ pc = "idle"
    /\ call = NoCall
    /\ wcalls = <<>>
    /\ ret = [err |-> Nil, val |-> None]
    /\ wfs = Abstract
    /\ \E serial \in BOOLEAN, d1 \in RaceArgs, d2 \in RaceArgs :
           threads = [serial |-> serial, lock |-> 0, cwd0 |-> cwd, hdr |-> Header(cwd),
                      t |-> <<Goroutine("Chdir", d1), Goroutine("Chdir", d2),
                              Goroutine("path", <<>>)>>]

Racing == threads # NoThreads

RaceUnchanged == UNCHANGED <<variant, prefix, file, pc, call, wcalls, ret, wfs>>

\* a goroutine enters Chdir without waiting for the caller's lock
ChdirEnter_unlocked ==
    /\ Racing
    /\ \E i \in ChdirThreads :
        /\ threads.t[i].at = "ready"
        /\ LET d == Clean(threads.t[i].arg) IN
           threads' = [threads EXCEPT
                         !.lock = IF threads.serial THEN i ELSE 0,
                         !.t[i].at = IF IsAbs(d) THEN "write" ELSE "read",
                         !.t[i].new = IF IsAbs(d) THEN ChdirFrom(<<>>, threads.t[i].arg) ELSE <<>>]
        /\ cwd' = cwd
        /\ RaceUnchanged

\* a goroutine enters Chdir (a serializing caller lets it in when no other
\* call runs): dir is cleaned, an absolute dir is written as it is
ChdirEnter ==
    /\ Racing
    /\ \E i \in ChdirThreads :
        /\ threads.t[i].at = "ready"
        /\ threads.serial => threads.lock = 0
        /\ LET d == Clean(threads.t[i].arg) IN
           threads' = [threads EXCEPT
                         !.lock = IF threads.serial THEN i ELSE 0,
                         !.t[i].at = IF IsAbs(d) THEN "write" ELSE "read",
                         !.t[i].new = IF IsAbs(d) THEN ChdirFrom(<<>>, threads.t[i].arg) ELSE <<>>]
        /\ cwd' = cwd
        /\ RaceUnchanged

\* one word of b.cwd is loaded, in either order
LoadWord(i, next) ==
    /\ \E w \in threads.t[i].left :
        LET g == threads.t[i]
            h == IF w = "data" THEN [g.hdr EXCEPT !.data = threads.hdr.data]
                               ELSE [g.hdr EXCEPT !.len = threads.hdr.len]
            last == g.left = {w}
        IN threads' = [threads EXCEPT
                         !.t[i].hdr = h,
                         !.t[i].left = IF last THEN Words ELSE g.left \ {w},
                         !.t[i].at = IF last THEN next ELSE g.at,
                         !.t[i].new = IF last /\ g.op = "Chdir"
                                      THEN ChdirFrom(StringOf(h), g.arg) ELSE g.new]
    /\ cwd' = cwd
    /\ RaceUnchanged

\* Chdir with a relative dir reads b.cwd for path.Join(b.cwd, dir)
ChdirRead ==
    /\ Racing
    /\ \E i \in ChdirThreads :
        /\ threads.t[i].at = "read"
        /\ LoadWord(i, "write")

\* Chdir stores one word of its result into b.cwd, in either order, and
\* returns after the second
ChdirWrite ==
    /\ Racing
    /\ \E i \in ChdirThreads :
        /\ threads.t[i].at = "write"
        /\ \E w \in threads.t[i].left :
            LET g == threads.t[i]
                h == IF w = "data" THEN [threads.hdr EXCEPT !.data = g.new]
                                   ELSE [threads.hdr EXCEPT !.len = Len(g.new)]
                last == g.left = {w}
            IN /\ threads' = [threads EXCEPT
                                !.hdr = h,
                                !.lock = IF last THEN 0 ELSE threads.lock,
                                !.t[i].left = IF last THEN Words ELSE g.left \ {w},
                                !.t[i].at = IF last THEN "done" ELSE g.at,
                                !.t[i].res = IF last THEN Nil ELSE g.res]
               /\ cwd' = StringOf(h)
        /\ RaceUnchanged

\* a goroutine enters path with the empty name
PathEnter ==
    /\ Racing
    /\ threads.t[PathThread].at = "ready"
    /\ threads.serial => threads.lock = 0
    /\ threads' = [threads EXCEPT !.lock = IF threads.serial THEN PathThread ELSE 0,
                                  !.t[PathThread].at = "read"]
    /\ cwd' = cwd
    /\ RaceUnchanged

\* path reads b.cwd for the empty name
PathRead ==
    /\ Racing
    /\ threads.t[PathThread].at = "read"
    /\ LoadWord(PathThread, "resolve")

\* path resolves what it read and returns
PathReturn ==
    /\ Racing
    /\ threads.t[PathThread].at = "resolve"
    /\ threads' = [threads EXCEPT
                     !.lock = 0,
                     !.t[PathThread].at = "done",
                     !.t[PathThread].res = pathAt(StringOf(threads.t[PathThread].hdr), <<>>)]
    /\ cwd' = cwd
    /\ RaceUnchanged

NextRace ==
    \/ ChdirEnter
    \/ ChdirRead
    \/ ChdirWrite
    \/ PathEnter
    \/ PathRead
    \/ PathReturn

SpecRace == InitRace /\ [][NextRace]_vars

----------------------------------------------------------------------------
(* Properties *)

\* the operations that translate one path, held in call.name
OnePathOps == {"Open", "OpenFile", "Create", "Mkdir", "MkdirAll", "Remove", "RemoveAll",
               "Stat", "Lstat", "Chmod", "Chtimes", "Chown", "Lchown", "Truncate",
               "Readlink", "ReadDir", "ReadFile", "Sub"}

\* a one-path operation has just returned
AfterOnePathOp == pc = "returned" /\ call.op \in OnePathOps

\* real is the base directory or lies below it at a segment boundary
Within(real, base) ==
    \/ real = base
    \/ HasPrefix(real, IF base[Len(base)] = "/" THEN base ELSE base \o <<"/">>)

B == <<"/", "b">>

\* C1: whatever the working directory, the translation of a virtual path is
\* either rejected or a real path that is the base directory or lies below
\* it at a path-segment boundary (with base /b, a name whose joined form is
\* /bf is rejected).
C1_ResolveWithinBase ==
    AfterOnePathOp =>
        LET r == path(call.name) IN r.err = Nil => Within(r.real, prefix)

\* the calls on the wrapped filesystem whose location the facade translated
LocationOps == {"Open", "OpenFile", "Create", "Mkdir", "MkdirAll", "Remove", "RemoveAll",
                "Rename", "Stat", "Lstat", "Chmod", "Chtimes", "Chown", "Lchown",
                "Truncate", "Readlink", "ReadDir", "ReadFile", "FilerToFS", "Symlink"}

\* C2: every location a facade operation hands to the wrapped filesystem
\* (both paths of Rename, the link path of Symlink) begins with the base
\* directory string.
C2_WrappedLocationsHavePrefix ==
    (pc = "returned" /\ call.op \notin {"NewFS", "NewFileSystem"}) =>
        \A i \in 1..Len(wcalls) :
            LET w == wcalls[i] IN
            w.op \in LocationOps =>
                /\ w.op # "Symlink" => HasPrefix(w.path, prefix)
                /\ w.op \in {"Rename", "Symlink"} => HasPrefix(w.path2, prefix)

\* C2 witness: Rename reached the wrapped filesystem with a new path that
\* begins with the base string /b, from a name that needed translation
C2_Witness ==
    /\ pc = "returned" /\ call.op = "Rename" /\ prefix = B
    /\ call.name2 = <<".", ".", "/", "b", "f">>
    /\ Len(wcalls) = 1 /\ wcalls[1].path2 = <<"/", "b", "f">>

\* the call c has a path argument whose translation is rejected
RejectedCall(c) ==
    CASE c.op \in OnePathOps -> path(c.name).err # Nil
      [] c.op = "Rename" -> path(c.name).err # Nil \/ path(c.name2).err # Nil
      [] c.op = "Symlink" ->
            path(c.name2).err # Nil \/ (IsAbs(c.name) /\ path(c.name).err # Nil)
      [] OTHER -> FALSE

\* C3: an operation one of whose path arguments is rejected returns an
\* error, makes no call on the wrapped filesystem (whose state only such a
\* call can change) and leaves the working directory as it was.
C3_RejectionMakesNoCall ==
    [][(pc = "idle" /\ pc' = "returned" /\ RejectedCall(call')) =>
           /\ ret'.err # Nil
           /\ wcalls' = <<>>
           /\ cwd' = cwd /\ prefix' = prefix /\ file' = file]_vars

\* C3 witness: Symlink with an accepted link path and a rejected absolute
\* target has returned without a wrapped call
C3_Witness ==
    /\ pc = "returned" /\ call.op = "Symlink"
    /\ IsAbs(call.name) /\ path(call.name).err # Nil /\ path(call.name2).err = Nil
    /\ wcalls = <<>> /\ ret.err # Nil

Root == <<"/">>

\* an absolute path, not the root, with no ".", ".." or empty segment
PlainAbs(p) ==
    /\ IsAbs(p) /\ p # Root
    /\ \A i \in 2..Len(Split(p)) : Split(p)[i] \notin {<<>>, <<".">>, DotDot}

C5_BasePlusCwd == IF cwd = Root THEN prefix ELSE prefix \o cwd

C5_JoinedCwd ==
    IF cwd = Root THEN prefix ELSE IF prefix = Root THEN cwd ELSE prefix \o cwd

C6_RoundTrip ==
    (AfterOnePathOp /\ call.name \notin {<<>>, Root} /\ path(call.name).err = Nil) =>
        VirtualTarget(path(call.name).real) = Clean(Root \o call.name)

\* the answer of the wrapped Stat the constructor asked for
StatFails == wcalls # <<>> /\ (wcalls[1].err # Nil \/ ~wcalls[1].info.isDir)

\* C7: a constructor fails, building no facade, exactly when the directory
\* is empty, is not absolute, cannot be stat'ed or is not a directory; the
\* outcome is a function of the directory and the wrapped Stat's answer.
C7_ConstructorOutcome ==
    (pc = "returned" /\ call.op \in {"NewFS", "NewFileSystem"}) =>
        LET dir == call.name
            kind == IF call.op = "NewFS" THEN "SymlinkFileSystem" ELSE "FileSystem"
        IN /\ ret.err # Nil <=> (dir = <<>> \/ ~IsAbs(dir) \/ StatFails)
           /\ IsAbs(dir) <=> (Len(wcalls) = 1 /\ wcalls[1].op = "Stat" /\ wcalls[1].path = dir)
           /\ ret.err # Nil => (variant = "none" /\ ret.val = None)
           /\ ret.err = Nil => (variant = kind /\ ret.val = [kind |-> kind] /\ prefix = dir)

\* C7 witness: NewFileSystem failed on a base that is a regular file
C7_Witness ==
    /\ pc = "returned" /\ call.op = "NewFileSystem" /\ call.name = B
    /\ wcalls # <<>> /\ wcalls[1].err = Nil /\ ~wcalls[1].info.isDir
    /\ ret.err = ErrorString(<<"not a directory">>) /\ variant = "none"

\* C8: construction sets the working directory to "/" and the base to the
\* argument; afterwards the base never changes and the working directory
\* changes only in a Chdir call.
C8_OnlyChdirMovesCwd ==
    [][/\ (variant = "none" /\ variant' # "none") =>
              (cwd' = Root /\ prefix' = call'.name /\ call'.op \in {"NewFS", "NewFileSystem"})
       /\ variant # "none" =>
              /\ prefix' = prefix /\ variant' = variant
              /\ cwd' # cwd => (call'.op = "Chdir" /\ pc = "idle" /\ pc' = "returned")]_vars

\* C8 witness: away from "/", an operation on a File failed and the working
\* directory is still where Chdir put it
C8_Witness ==
    /\ pc = "returned" /\ call.op = "File.Close" /\ ret.err # Nil
    /\ cwd = <<"/", "e">> /\ prefix = B

\* the error of the last call on the wrapped filesystem or real handle
WrappedErr == wcalls[Len(wcalls)].err

\* a facade or File operation returned after a failed wrapped call
AfterWrappedError ==
    /\ pc = "returned" /\ call.op \notin {"NewFS", "NewFileSystem"}
    /\ wcalls # <<>> /\ WrappedErr # Nil

Mentions(e, pre) == Contains(ErrorText(e), pre)

\* C9: when the wrapped filesystem's error embeds the base directory (base
\* other than "/"), the error handed to the caller does not: a path error
\* for base + x comes back with Path x.
C9_ErrorsSanitized ==
    (AfterWrappedError /\ prefix # Root /\ Mentions(WrappedErr, prefix)) =>
        /\ ~Mentions(ret.err, prefix)
        /\ WrappedErr.type = "*os.PathError" =>
               ret.err = PathError(WrappedErr.op, TrimPrefix(WrappedErr.path, prefix),
                                   WrappedErr.cause)

\* the underlying cause of an error
Cause(e) == IF e.type \in {"*os.PathError", "*os.LinkError"} THEN e.cause ELSE e

\* C10: an error of the wrapped filesystem reaches the caller with the same
\* type and the same underlying cause.
C10_KindPreserved ==
    AfterWrappedError =>
        /\ ret.err.type = WrappedErr.type
        /\ Cause(ret.err) = Cause(WrappedErr)

\* the error of the translation of a virtual name that is rejected: a path
\* error for "open" that carries the joined path
RejectionOf(name) ==
    PathError("open", Join(prefix, IF IsAbs(name) THEN name ELSE Clean(name)),
              ErrorString(<<"no such file or directory">>))

\* C11: Rename translates each path on its own; when a translation is
\* rejected it returns a link error for "rename" whose Old and New are the
\* names the caller passed and whose cause is the rejection, the old
\* path's when both are rejected, and makes no wrapped call; when both
\* translate, the wrapped Rename gets the two translations.
C11_RenameRejection ==
    (pc = "returned" /\ call.op = "Rename") =>
        LET old == path(call.name)
            new == path(call.name2)
        IN /\ old.err # Nil =>
                  /\ ret.err = LinkError("rename", call.name, call.name2, old.err)
                  /\ call.name # <<>> => old.err = RejectionOf(call.name)
                  /\ wcalls = <<>>
           /\ (old.err = Nil /\ new.err # Nil) =>
                  /\ ret.err = LinkError("rename", call.name, call.name2, new.err)
                  /\ call.name2 # <<>> => new.err = RejectionOf(call.name2)
                  /\ wcalls = <<>>
           /\ (old.err = Nil /\ new.err = Nil) =>
                  /\ Len(wcalls) = 1
                  /\ wcalls[1].path = old.real /\ wcalls[1].path2 = new.real

\* C11 witness: both names are rejected, with different rejections, and the
\* link error carries the old name's
C11_Witness ==
    /\ pc = "returned" /\ call.op = "Rename" /\ prefix = B
    /\ call.name = <<".", ".">> /\ call.name2 = <<"/", ".", ".", "/", "e">>
    /\ path(call.name).err # Nil /\ path(call.name2).err # Nil
    /\ path(call.name).err # path(call.name2).err
    /\ ret.err = LinkError("rename", <<".", ".">>, <<"/", ".", ".", "/", "e">>,
                           PathError("open", <<"/">>, ErrorString(<<"no such file or directory">>)))

\* C12: Symlink(target, link) translates the link path always: a rejected
\* link path is the error returned, and otherwise the wrapped Symlink gets
\* the translation as its link; an absolute target is translated too; a
\* relative target is never rejected and reaches the wrapped Symlink
\* exactly as the caller wrote it.
C12_SymlinkTranslation ==
    (pc = "returned" /\ call.op = "Symlink") =>
        LET link == path(call.name2)
            target == call.name
        IN /\ link.err # Nil => (ret.err = link.err /\ wcalls = <<>>)
           /\ (link.err = Nil /\ IsAbs(target)) =>
                  IF path(target).err # Nil
                  THEN ret.err = path(target).err /\ wcalls = <<>>
                  ELSE /\ Len(wcalls) = 1
                       /\ wcalls[1].path = path(target).real
                       /\ wcalls[1].path2 = link.real
           /\ (link.err = Nil /\ ~IsAbs(target)) =>
                  /\ Len(wcalls) = 1
                  /\ wcalls[1].path = target
                  /\ wcalls[1].path2 = link.real

\* C12 witness: the relative target e/.., which cleaning would turn into "."
\* and which the translation of a name would put at the base, reached the
\* wrapped Symlink unchanged, with the link path translated
C12_Witness ==
    /\ pc = "returned" /\ call.op = "Symlink" /\ prefix = B
    /\ call.name = <<"e", "/", ".", ".">> /\ call.name2 = <<"/", "b", "/", "e">>
    /\ Len(wcalls) = 1
    /\ wcalls[1].path = <<"e", "/", ".", ".">>
    /\ wcalls[1].path2 = <<"/", "b", "/", "b", "/", "e">>

\* the virtual form of a real path within the base: the base prefix
\* stripped, absolute and cleaned, "/" for the base itself
VirtualForm(real) == Clean(<<"/">> \o TrimPrefix(real, prefix))

\* C13: Readlink hands back the wrapped filesystem's target in virtual form
\* exactly when the target is absolute and lies within the base directory
\* (the base itself or below it at a segment boundary); a relative target
\* and an absolute target outside the base, a sibling such as /bf/e under
\* base /b included, come back unchanged.
C13_ReadlinkRewrite ==
    (pc = "returned" /\ call.op = "Readlink" /\ wcalls # <<>> /\ wcalls[1].err = Nil) =>
        LET target == wcalls[1].val IN
        /\ ret.err = Nil
        /\ ret.val = String(IF IsAbs(target) /\ Within(target, prefix)
                            THEN VirtualForm(target)
                            ELSE target)

\* C14: on a wrapped filesystem that stores targets verbatim, Readlink of a
\* link made by Symlink(t, l) returns t itself when t is relative, and the
\* cleaned t, an absolute virtual path, when t is absolute and translates
\* to a place within the base directory.
C14_SymlinkReadlinkRoundTrip ==
    (pc = "returned" /\ call.op = "Readlink" /\ ret.err = Nil) =>
        LET t == LinkAt(path(call.name).real).asked IN
        IF ~IsAbs(t) THEN ret.val = String(t)
        ELSE Within(path(t).real, prefix) => ret.val = String(Clean(t))

\* real lies below the base directory at a segment boundary
Below(real, base) == real # base /\ Within(real, base)

\* C15: TempDir never returns the empty string; when the wrapped
\* filesystem's temp directory lies below the base directory it returns
\* that directory in virtual form (base prefix stripped, absolute), and
\* when it lies outside, a sibling such as /bf/t under base /b included, it
\* returns "/tmp".
C15_TempDirConfined ==
    (pc = "returned" /\ call.op = "TempDir") =>
        LET tmpdir == wcalls[1].val IN
        /\ ret.val.kind = "string" /\ ret.val.s # <<>>
        /\ Below(tmpdir, prefix) => ret.val.s = VirtualForm(tmpdir)
        /\ ~Within(tmpdir, prefix) => ret.val.s = DefaultTmp

\* the file-info fi has the given name and every other attribute of the
\* wrapped file-info w
NamedLike(fi, name, w) ==
    /\ fi.kind = "fileinfo"
    /\ fileinfo_Name(fi) = name
    /\ fileinfo_Size(fi) = w.size
    /\ fileinfo_Mode(fi) = w.mode
    /\ fileinfo_ModTime(fi) = w.modTime
    /\ fileinfo_IsDir(fi) = w.isDir
    /\ fileinfo_Sys(fi) = w.sys

\* what C16 says of a state: a successful Stat returns the wrapped
\* file-info under the base-name of the name the caller passed, a
\* successful Stat of a File returns it under the base-name of the File's
\* name, and Name of a File returns the File's name
C16_Returned ==
    /\ (pc = "returned" /\ call.op = "Stat" /\ ret.err = Nil) =>
           NamedLike(ret.val, Base(call.name), wcalls[1].info)
    /\ (pc = "returned" /\ call.op = "File.Stat" /\ ret.err = Nil) =>
           NamedLike(ret.val, Base(file.name), wcalls[1].info)
    /\ (pc = "returned" /\ call.op = "File.Name") => ret.val = String(file.name)

\* C16: Stat on the facade and on a File return the wrapped file-info with
\* the name replaced by the base-name of the virtual name the caller passed
\* (to Stat, or to the Open, Create or OpenFile that made the File); the
\* name of a File is the virtual name given when it was opened and no later
\* call, Chdir included, changes it.
C16_StatNamesVirtual ==
    [][/\ C16_Returned'
       /\ (file = None /\ file' # None) =>
              (call'.op \in {"Open", "Create", "OpenFile"} /\ file'.name = call'.name)
       /\ (file # None /\ file' # None) => file'.name = file.name]_vars

\* C16 witness: away from the working directory it was opened in, Stat of a
\* File opened as "/" on base /b returned the wrapped info of b named "/"
C16_Witness ==
    /\ pc = "returned" /\ call.op = "File.Stat" /\ ret.err = Nil
    /\ prefix = B /\ cwd = <<"/", "e">>
    /\ file.name = Root /\ fileinfo_Name(ret.val) = Root
    /\ wcalls[1].info.name = <<"b">> /\ fileinfo_Sys(ret.val) = [stat_t |-> B]

\* C17: for a facade of either variant Unwrap returns the wrapped
\* filesystem and Prefix the base directory given at construction; for any
\* other value Unwrap returns the value and Prefix the empty string.
C17_Introspection ==
    (pc = "returned" /\ call.op \in {"Unwrap", "Prefix"}) =>
        LET confined == call.fs.kind \in {"SymlinkFileSystem", "FileSystem"} IN
        IF call.op = "Unwrap"
        THEN ret.val = IF confined THEN Wrapped ELSE call.fs
        ELSE ret.val = String(IF confined THEN prefix ELSE <<>>)

\* the entries of the tree below the base directory
BelowBase == {n \in wfs.nodes : Below(n.at, prefix)}

\* a walk from "/" has returned without error
WalkedFromRoot ==
    /\ pc = "returned" /\ call.op \in {"Walk", "FastWalk"}
    /\ call.name = Root /\ ret.err = Nil

\* the paths delivered are those of the entries visited from the base, each
\* once, the base itself as "/": N + M + 1 callbacks for N files and M
\* subdirectories below the base
C18_DeliveredOnce ==
    LET d == ret.val.paths
        N == Cardinality({n \in BelowBase : ~n.isDir})
        M == Cardinality({n \in BelowBase : n.isDir})
    IN /\ Len(wcalls) = 1 /\ wcalls[1].path = prefix
       /\ Len(d) = N + M + 1
       /\ \A i, j \in 1..Len(d) : d[i] = d[j] => i = j
       /\ {d[i] : i \in 1..Len(d)} =
              {Root} \cup {TrimPrefix(n.at, prefix) : n \in BelowBase}

\* C18 as stated: Walk and FastWalk from "/" deliver exactly the entries
\* the wrapped walk visits from the base directory, each once and in
\* virtual form, N + M + 1 callbacks in all, and no delivered path contains
\* the base prefix (where the base is not "/", which every path contains).
C18_WalkNeverShowsBase ==
    WalkedFromRoot =>
        /\ C18_DeliveredOnce
        /\ prefix # Root =>
               \A i \in 1..Len(ret.val.paths) : ~Contains(ret.val.paths[i], prefix)

\* C18 amended: Walk and FastWalk from "/" deliver exactly the entries the
\* wrapped walk visits from the base directory, each once, N + M + 1
\* callbacks in all, each under its real path with the leading base prefix
\* removed (the base itself as "/"); what remains can itself contain the
\* base string.
C18_WalkDeliversStripped ==
    WalkedFromRoot => C18_DeliveredOnce

\* C18 witness: FastWalk on base /b delivered four entries, among them
\* /b/b under the name /b, and not the sibling /bf
C18_Witness ==
    /\ WalkedFromRoot /\ call.op = "FastWalk" /\ prefix = B
    /\ Node(<<"/", "b", "f">>, FALSE) \in wfs.nodes
    /\ Len(ret.val.paths) = 4
    /\ ret.val.paths[2] = B /\ ret.val.paths[4] = Root

\* a call of the caller takes place in this step
Calls(op) == pc = "idle" /\ pc' = "returned" /\ call'.op = op

\* C19: the confined and the wrapped filesystem see the same files, for an
\* absolute virtual path p: after a successful Create(p) the wrapped
\* filesystem holds an empty file at base + p; a successful write of B
\* through the File puts B into the wrapped file at base + p, at the File's
\* position; and a read through the File of Open(p) or Create(p) returns
\* exactly the bytes, or the end of file, that the wrapped file at base + p
\* gives at that position.
C19_SameFiles ==
    [][/\ (Calls("Create") /\ ret'.err = Nil /\ IsAbs(call'.name)) =>
              /\ HasFileIn(wfs'.files, prefix \o call'.name)
              /\ DataIn(wfs'.files, prefix \o call'.name) = <<>>
       /\ (Calls("Open") /\ ret'.err = Nil /\ IsAbs(call'.name)) =>
              (HasFile(prefix \o call'.name) /\ wfs'.files = wfs.files)
       /\ (Calls("File.Write") /\ ret'.err = Nil /\ IsAbs(file.name)) =>
              /\ ret'.val.n = Len(call'.bytes)
              /\ DataIn(wfs'.files, prefix \o file.name) =
                     Overwrite(DataAt(prefix \o file.name), wfs.open.off, call'.bytes)
       /\ (Calls("File.Read") /\ IsAbs(file.name)) =>
              LET got == ReadFrom(DataAt(prefix \o file.name), wfs.open.off, call'.size) IN
              /\ ret'.val.p = got /\ ret'.val.n = Len(got)
              /\ ret'.err = (IF got = <<>> THEN EOF ELSE Nil)
              /\ wfs'.files = wfs.files]_vars

\* C19 witness: on base /b the bytes "hi" were written through Create("/e"),
\* the wrapped filesystem holds them at /b/e, and a read through Open("/e")
\* returned them
C19_Witness ==
    /\ pc = "returned" /\ call.op = "File.Read" /\ prefix = B
    /\ file.name = <<"/", "e">> /\ ~wfs.open.writable
    /\ wfs.files = {[at |-> <<"/", "b", "/", "e">>, data |-> <<"h", "i">>]}
    /\ ret.val.p = <<"h", "i">> /\ ret.err = Nil

\* what a caller can test of an error without reading its path: its type
\* and its underlying cause (errors.Is, os.IsNotExist)
Shape(e) == [type |-> e.type, cause |-> Cause(e)]

\* the shape of a not-found error of the wrapped filesystem
NotFoundShape == [type |-> "*os.PathError", cause |-> ENOENT]

\* the wrapped filesystem did not find the translated path
GenuineNotFound ==
    /\ wcalls # <<>> /\ WrappedErr.type = "*os.PathError" /\ WrappedErr.cause = ENOENT

\* C20: the error of a one-path operation on a path that the confinement
\* check rejects has the same kind and shape as the error of that
\* operation on a path that translates and that the wrapped filesystem
\* does not find: in both cases a path error whose cause is the not-found
\* error.
C20_RejectionLooksNotFound ==
    (pc = "returned" /\ call.op \in OnePathOps) =>
        /\ GenuineNotFound => Shape(ret.err) = NotFoundShape
        /\ RejectedCall(call) => Shape(ret.err) = NotFoundShape

OpenOps == {"Open", "Create", "OpenFile"}

\* C21: a File owns exactly one real handle and Close is a pure
\* pass-through: a successful Open, Create or OpenFile performs exactly one
\* open on the wrapped filesystem and wraps the handle that open made (a
\* failed one wraps nothing), and every File.Close forwards exactly one Close
\* to that real handle and to no other, whatever was called before and also
\* when the real handle is closed already.
C21_OneOpenOneClose ==
    [][/\ \A op \in OpenOps : Calls(op) =>
            IF ret'.err = Nil
            THEN /\ Len(wfs'.handles) = Len(wfs.handles) + 1
                 /\ SubSeq(wfs'.handles, 1, Len(wfs.handles)) = wfs.handles
                 /\ Len(wcalls') = 1 /\ wcalls'[1].op = op
                 /\ file' = ret'.val /\ file'.kind = "File"
                 /\ file'.f = Len(wfs'.handles)
                 /\ wfs'.handles[file'.f].at = wcalls'[1].path
            ELSE wfs' = wfs /\ file' = file /\ Len(wcalls') <= 1
       /\ Calls("File.Close") =>
            /\ Len(wcalls') = 1 /\ wcalls'[1].op = "File.Close"
            /\ wcalls'[1].handle = file.f
            /\ file' = file
            /\ Len(wfs'.handles) = Len(wfs.handles)
            /\ \A h \in 1..Len(wfs.handles) :
                   wfs'.handles[h].closes =
                       wfs.handles[h].closes + (IF h = file.f THEN 1 ELSE 0)
       /\ (pc = "idle" /\ pc' = "returned" /\ call'.op \notin OpenOps \cup {"File.Close"}) =>
            \A h \in 1..Len(wfs.handles) : wfs'.handles[h].closes = wfs.handles[h].closes
      ]_vars

\* a second File.Close on a File whose real handle was closed already
\* reached that real handle as its second Close and came back with an error
C21_Witness ==
    /\ pc = "returned" /\ call.op = "File.Close"
    /\ file # None /\ wfs.kind = "handles"
    /\ wfs.handles[file.f].closes = 2
    /\ ret.err # Nil
    /\ Len(wcalls) = 1

\* the three calls, in the six orders a serial execution can take
CallOrders ==
    {o \in [1..3 -> 1..3] : \A i \in 1..3 : \E k \in 1..3 : o[k] = i}

\* working directory and result of the resolve after the calls o[k..3] are
\* made one after another
RECURSIVE SerialRun(_, _, _, _)
SerialRun(o, k, c, res) ==
    IF k > 3 THEN [cwd |-> c, res |-> res]
    ELSE LET g == threads.t[o[k]] IN
         IF g.op = "Chdir"
         THEN SerialRun(o, k + 1, ChdirFrom(c, g.arg), res)
         ELSE SerialRun(o, k + 1, c, pathAt(c, g.arg))

SerialOutcomes == {SerialRun(o, 1, threads.cwd0, None) : o \in CallOrders}

AllDone == \A i \in 1..3 : threads.t[i].at = "done"

Outcome == [cwd |-> cwd, res |-> threads.t[PathThread].res]

\* C22: when the caller serializes the calls, the final working directory
\* and the result of the resolve are those of one of the serial orders of
\* the calls, and no call ever sees or leaves a half-written b.cwd.
C22_SerializedIsSerial ==
    (Racing /\ threads.serial) =>
        /\ AllDone => Outcome \in SerialOutcomes
        /\ threads.lock = 0 => threads.hdr = Header(cwd)
        /\ \A i \in 1..3 :
               (threads.t[i].at = "write" /\ threads.t[i].left = Words)
                   => threads.t[i].new = ChdirFrom(cwd, threads.t[i].arg)

\* two unserialized relative Chdir calls both read the working directory
\* before either wrote it: one update is lost, and no serial order of the
\* calls ends there
C22_Witness ==
    /\ Racing /\ ~threads.serial /\ AllDone
    /\ \A i \in ChdirThreads : ~IsAbs(Clean(threads.t[i].arg))
    /\ \E i \in ChdirThreads : cwd = ChdirFrom(threads.cwd0, threads.t[i].arg)
    /\ Outcome \notin SerialOutcomes

\* the path-taking operations whose wrapped errors are to be sanitized
SanitizedOps == {"Open", "OpenFile", "Create", "Remove", "RemoveAll", "Mkdir", "MkdirAll",
                 "Rename", "Truncate", "Stat", "Lstat", "Chmod", "Chtimes", "Chown",
                 "Lchown", "Symlink", "Readlink"}

\* C23: for every path-taking operation, Create, OpenFile, MkdirAll,
\* RemoveAll and Truncate included, an error e of the wrapped filesystem
\* reaches the caller as fixerr(prefix, e), never as e itself.
C23_SanitizedEverywhere ==
    (AfterWrappedError /\ call.op \in SanitizedOps) => ret.err = fixerr(prefix, WrappedErr)

\* C24: a file-info the facade returns carries the virtual name: a
\* successful Stat(p) and a successful Lstat(p) both report the base-name of
\* the virtual path p, so for p = "/" neither reports the name of the base
\* directory.
C24_LstatNamesVirtual ==
    (pc = "returned" /\ call.op \in {"Stat", "Lstat"} /\ ret.err = Nil) =>
        /\ fileinfo_Name(ret.val) = Base(call.name)
        /\ (call.name = Root /\ prefix # Root) => fileinfo_Name(ret.val) # Base(prefix)

\* C25: a real path equal to the base directory maps back to the virtual
\* root: TempDir returns "/" when the wrapped filesystem's temp directory is
\* the base directory, and Readlink returns "/" when the target the wrapped
\* filesystem reports is the base directory.
C25_BaseMapsToRoot ==
    /\ (pc = "returned" /\ call.op = "TempDir" /\ wcalls[1].val = prefix) =>
           ret.val = String(Root)
    /\ (pc = "returned" /\ call.op = "Readlink" /\ wcalls # <<>>
            /\ wcalls[1].err = Nil /\ wcalls[1].val = prefix) =>
           (ret.err = Nil /\ ret.val = String(Root))

\* the operations that take virtual paths
PathOps == OnePathOps \cup {"Rename", "Symlink"}

\* the virtual name whose translation an operation found rejected first
RejectedName(c) ==
    CASE c.op = "Rename" -> IF path(c.name).err # Nil THEN c.name ELSE c.name2
      [] c.op = "Symlink" -> IF path(c.name2).err # Nil THEN c.name2 ELSE c.name
      [] OTHER -> c.name

\* the rejection an operation reports: its error, which Rename carries as
\* the cause of its link error
ReportedRejection == IF call.op = "Rename" THEN ret.err.cause ELSE ret.err

\* the path the confinement check is made on: the base directory joined
\* with the virtual name (the working directory for the empty name)
JoinedPath(name) ==
    LET n == IF name = <<>> THEN cwd ELSE name IN
    Join(prefix, IF IsAbs(n) THEN n ELSE Clean(n))

\* C26: a confinement rejection has one shape whichever operation reports
\* it: a path error for "open" whose cause is the text "no such file or
\* directory" and whose path is the joined and cleaned real path that
\* failed the check, not the virtual name; and an operation fails before
\* its wrapped call for no other reason than a path that, joined to the
\* base, does not begin with it.
C26_RejectionShape ==
    (pc = "returned" /\ call.op \in PathOps /\ ret.err # Nil /\ wcalls = <<>>) =>
        LET e == ReportedRejection
            name == RejectedName(call)
        IN /\ RejectedCall(call)
           /\ e.type = "*os.PathError"
           /\ e.op = "open"
           /\ e.cause = ErrorString(<<"no such file or directory">>)
           /\ e.path = JoinedPath(name) /\ e.path = Clean(e.path)
           /\ e.path # name
           /\ ~HasPrefix(JoinedPath(name), prefix)

\* C26 witness: Chown of /../e under base /b was rejected with a path error
\* for "open" on /e
C26_Witness ==
    /\ pc = "returned" /\ call.op = "Chown" /\ prefix = B
    /\ call.name = <<"/", ".", ".", "/", "e">>
    /\ wcalls = <<>>
    /\ ret.err = PathError("open", <<"/", "e">>, ErrorString(<<"no such file or directory">>))

\* C27: Chdir never fails and makes no call on the wrapped filesystem,
\* whether or not the directory exists there: an absolute d sets the working
\* directory to the cleaned d, a relative d to the cleaned join of the
\* previous working directory and d; Getwd returns the working directory
\* and no error, and changes nothing.
C27_ChdirNeverFails ==
    [][/\ Calls("Chdir") =>
            LET d == call'.name IN
            /\ ret'.err = Nil
            /\ wcalls' = <<>>
            /\ cwd' = IF IsAbs(d) THEN Clean(d) ELSE Clean(cwd \o <<"/">> \o d)
       /\ Calls("Getwd") =>
            /\ ret' = [err |-> Nil, val |-> String(cwd)]
            /\ wcalls' = <<>>
            /\ cwd' = cwd]_vars

\* C27 witness: from /e, Chdir("e") moved the working directory to /e/e
\* without a wrapped call or an error
C27_Witness ==
    /\ pc = "returned" /\ call.op = "Chdir" /\ call.name = <<"e">>
    /\ cwd = <<"/", "e", "/", "e">>
    /\ ret.err = Nil /\ wcalls = <<>>

\* an absolute path with no ".", ".." or empty segment
CleanAbs(p) ==
    /\ IsAbs(p)
    /\ p = Clean(p)
    /\ p # Root => \A e \in {Split(p)[i] : i \in 2..Len(Split(p))} :
                       e \notin {<<>>, <<".">>, <<".", ".">>}

NonEmptyPaths == VPaths \ {<<>>}

\* a relative name of plain segments
PlainRel(p) == ~IsAbs(p) /\ PlainAbs(<<"/">> \o p)

CountOps == {"File.Read", "File.ReadAt", "File.Write", "File.WriteAt", "File.WriteString",
             "File.Seek", "File.Readdir", "File.Readdirnames"}

\* C30: Read, ReadAt, Write, WriteAt, WriteString, Seek, Readdir and
\* Readdirnames on a File make one call on the real handle and return
\* exactly the count it returned; no error stays no error, and the real
\* handle's end of file comes back as the same io.EOF sentinel.
C30_HandleTransparent ==
    (pc = "returned" /\ call.op \in CountOps) =>
        /\ Len(wcalls) = 1 /\ wcalls[1].op = call.op /\ wcalls[1].path = file.f
        /\ ret.val = [kind |-> "count", n |-> wcalls[1].n]
        /\ wcalls[1].err = Nil => ret.err = Nil
        /\ wcalls[1].err = EOF => ret.err = EOF

\* C30 witness: Readdir on a File of base /b met the end of the directory
\* and the caller got io.EOF itself
C30_Witness ==
    /\ pc = "returned" /\ call.op = "File.Readdir" /\ prefix = B
    /\ wcalls[1].err = EOF /\ wcalls[1].n = 0
    /\ ret = [err |-> Sentinel("EOF"), val |-> [kind |-> "count", n |-> 0]]

====
